---- MODULE Spec2Model ----
EXTENDS Integers, Sequences, FiniteSets, TLC

\* Model of polynotify: the History Store (store.py), the detection engine
\* (monitor.py, Monitor.poll) and the dispatch loop (main.py, main).
\*
\* Units.  Time is counted in minutes (sqlite datetime('now') and
\* datetime.now(timezone.utc) both read the same wall clock).  Prices are
\* counted in hundredths (0.25 is 25, 0.9 is 90); volumes are plain numbers.
\* The inputs are chosen so that the float arithmetic of the source is exact
\* on them (0.25, 0.5, 0.75, 1.0 and their differences; 0.9 only compared).

VARIABLES
    cfg,              \* the Config value handed to Monitor and main (immutable)
    feed,             \* what the upstream can answer in this run (immutable)
    now,              \* wall clock, minutes
    pc,               \* position of main(): see Pcs
    shutdown,         \* asyncio.Event set by the signal handler
    cycle,            \* Monitor._cycle
    is_first_run,     \* poll(): local is_first_run
    active_events,    \* poll(): local active_events (after filtering)
    active_failed,    \* the active fetch of this cycle failed
    seen_events,      \* table seen_events: set of event ids
    market_snapshots, \* table market_snapshots: set of rows
    snapshot_seq,     \* AUTOINCREMENT counter of market_snapshots
    alerts_sent,      \* table alerts_sent: set of rows
    alerts,           \* main(): the list poll() returned
    idx,              \* main(): index of the alert being dispatched
    ch,               \* main(): index of the notifier being tried
    sent,             \* main(): local sent
    open,             \* what main() holds open: notifiers (a count) and the store
    results,          \* history: outcomes of the sends tried for alerts[idx]
    det,              \* history: the poll() call that has just ended
    emitted,          \* history: how often poll() returned each once-only alert
    committed,        \* history: <<id, kind>> pairs record_alert was called for
    undelivered,      \* history: <<id, kind>> pairs whose last dispatch failed on
                      \*          every channel
    swept,            \* history: rowids deleted by cleanup_old_snapshots
    marked,           \* history: ids mark_seen was called for on the Store directly
    last_call,        \* history: the Store method called last, with its result
    error,            \* history: the exception main() caught in this cycle
    dropped           \* history: <<id, kind>> pairs of alerts poll() built that
                      \*          main() never dispatched

vars == <<cfg, feed, now, pc, shutdown, cycle, is_first_run, active_events,
          active_failed, seen_events, market_snapshots, snapshot_seq,
          alerts_sent, alerts, idx, ch, sent, open, results, det, emitted, committed,
          undelivered, swept, marked, last_call, error, dropped>>

\* ---------------------------------------------------------------- bounds

MaxNow == 3          \* the clock stops the exploration at this minute
MaxSnapshots == 4    \* at most this many snapshot rows are ever inserted
EmitCap == 2         \* the emitted counters stop counting here
MaxStoreRows == 3    \* rows inserted when the Store is driven directly
MaxStoreTicks == 3   \* half hours that pass when the Store is driven directly

\* ------------------------------------------------------------- constants

CleanupPeriod == 60        \* monitor.py: self._cycle % 60
CleanupMaxAgeHours == 24   \* monitor.py: cleanup_old_snapshots(max_age_hours=24)
ResolutionPrice == 90      \* monitor.py: price > 0.9, in hundredths
MinutesPerHour == 60       \* total_seconds() / 3600 against total_seconds() / 60

Ids == {"e1", "e2"}
Kinds == {"new_market", "closing_soon", "resolved", "price_move", "volume_spike"}

\* ------------------------------------------------------------ input data

\* An optional number: Python None or a float.
None == [some |-> FALSE, v |-> 0]
Some(x) == [some |-> TRUE, v |-> x]

\* A raw upstream field.  tag says what the JSON held:
\*   "absent"  missing, null or otherwise falsy
\*   "bad"     a string that does not parse (ValueError in the parser)
\*   "naive"   an ISO timestamp without a UTC offset
\*   "nonstr"  a truthy value that is not a string (a JSON number)
\*   "empty"   the JSON text "[]"
\*   "ok"      a well-formed value v
Field(tag, v) == [tag |-> tag, v |-> v]
Absent == Field("absent", 0)
Bad == Field("bad", 0)
Ok(v) == Field("ok", v)

Market(title, outcome, prices, last) ==
    [groupItemTitle |-> title, outcome |-> outcome,
     outcomePrices |-> prices, lastTradePrice |-> last]

Event(id, closed, endDate, createdAt, markets, volume, volume24hr) ==
    [id |-> id, closed |-> closed, endDate |-> endDate, createdAt |-> createdAt,
     markets |-> markets, volume |-> volume, volume24hr |-> volume24hr]

\* ------------------------------------------------------ store.py: Store

\* A Python dict label -> price (None allowed), in insertion order.
\* The empty sequence stands for None as well: the source never keeps an
\* empty dict (`prices or None`, `if prices`).
DictSet(d, k, val) ==
    IF \E i \in DOMAIN d : d[i].label = k
    THEN [i \in DOMAIN d |-> IF d[i].label = k THEN [label |-> k, price |-> val] ELSE d[i]]
    ELSE Append(d, [label |-> k, price |-> val])

\* json.dumps(prices) if prices else None: a TEXT column or NULL.
json_dumps_or_null(prices) ==
    IF prices # <<>> THEN [null |-> FALSE, text |-> prices]
                     ELSE [null |-> TRUE, text |-> <<>>]

\* json.loads(row["outcome_prices"]) if row["outcome_prices"] else None
json_loads_or_none(col) == IF col.null THEN <<>> ELSE col.text

is_seen(seen, event_id) == event_id \in seen

\* A faulty mark_seen that replaces the table content (INSERT OR IGNORE
\* into an emptied table).
mark_seen_replacing(seen, event_id) == {event_id}

\* A faulty mark_seen that inserts nothing.
mark_seen_dropped(seen, event_id) == seen

\* INSERT OR IGNORE under PRIMARY KEY(event_id).
mark_seen(seen, event_id) == seen \cup {event_id}

is_empty(seen) == Cardinality(seen) = 0

\* A faulty save_snapshot that inserts no row when there are no prices.
save_snapshot_priced(rows, seq, event_id, prices, volume, t) ==
    IF prices = <<>> THEN rows
    ELSE rows \cup {[id |-> seq + 1, event_id |-> event_id,
                     outcome_prices |-> json_dumps_or_null(prices),
                     volume_24hr |-> volume, recorded_at |-> t]}

save_snapshot(rows, seq, event_id, prices, volume, t) ==
    rows \cup {[id |-> seq + 1, event_id |-> event_id,
                outcome_prices |-> json_dumps_or_null(prices),
                volume_24hr |-> volume, recorded_at |-> t]}

\* The rows the WHERE clause of get_snapshot selects.
SnapshotCandidates(rows, event_id, minutes_ago, t) ==
    {r \in rows : r.event_id = event_id /\ r.recorded_at <= t - minutes_ago}

\* get_snapshot with the ordering reversed (ORDER BY recorded_at ASC): the
\* oldest row the WHERE clause selects.
get_snapshot_oldest(rows, event_id, minutes_ago, t) ==
    LET cand == SnapshotCandidates(rows, event_id, minutes_ago, t)
    IN  IF cand = {}
        THEN [found |-> FALSE, id |-> 0, outcome_prices |-> <<>>,
              volume_24hr |-> None, recorded_at |-> 0]
        ELSE LET r == CHOOSE x \in cand : \A y \in cand :
                          \/ y.recorded_at > x.recorded_at
                          \/ (y.recorded_at = x.recorded_at /\ y.id >= x.id)
             IN  [found |-> TRUE, id |-> r.id,
                  outcome_prices |-> json_loads_or_none(r.outcome_prices),
                  volume_24hr |-> r.volume_24hr, recorded_at |-> r.recorded_at]

\* ORDER BY recorded_at DESC LIMIT 1.  Rows of one event with equal
\* recorded_at come back in index order reversed, the larger rowid first.
get_snapshot(rows, event_id, minutes_ago, t) ==
    LET cand == SnapshotCandidates(rows, event_id, minutes_ago, t)
    IN  IF cand = {}
        THEN [found |-> FALSE, id |-> 0, outcome_prices |-> <<>>,
              volume_24hr |-> None, recorded_at |-> 0]
        ELSE LET r == CHOOSE x \in cand : \A y \in cand :
                          \/ y.recorded_at < x.recorded_at
                          \/ (y.recorded_at = x.recorded_at /\ y.id <= x.id)
             IN  [found |-> TRUE, id |-> r.id,
                  outcome_prices |-> json_loads_or_none(r.outcome_prices),
                  volume_24hr |-> r.volume_24hr, recorded_at |-> r.recorded_at]

has_alert(sentRows, event_id, alert_type) ==
    \E r \in sentRows : r.event_id = event_id /\ r.alert_type = alert_type

\* A plain INSERT with no UNIQUE(event_id, alert_type) to replace under.
record_alert_appending(sentRows, event_id, alert_type, t) ==
    sentRows \cup {[event_id |-> event_id, alert_type |-> alert_type, sent_at |-> t]}

\* A faulty record_alert that empties the table before it inserts.
record_alert_truncating(sentRows, event_id, alert_type, t) ==
    {[event_id |-> event_id, alert_type |-> alert_type, sent_at |-> t]}

\* INSERT OR REPLACE under UNIQUE(event_id, alert_type).
record_alert(sentRows, event_id, alert_type, t) ==
    {r \in sentRows : ~(r.event_id = event_id /\ r.alert_type = alert_type)}
        \cup {[event_id |-> event_id, alert_type |-> alert_type, sent_at |-> t]}

last_alert_time(sentRows, event_id, alert_type) ==
    LET m == {r \in sentRows : r.event_id = event_id /\ r.alert_type = alert_type}
    IN  IF m = {} THEN None
        ELSE Some((CHOOSE r \in m : \A q \in m : q.sent_at <= r.sent_at).sent_at)

\* A faulty cleanup_old_snapshots that deletes the row at the cutoff too.
cleanup_old_snapshots_inclusive(rows, max_age_hours, t) ==
    LET old == {r \in rows : r.recorded_at <= t - max_age_hours * MinutesPerHour}
    IN  [rows |-> rows \ old, deleted |-> old, rowcount |-> Cardinality(old)]

\* DELETE ... WHERE recorded_at < datetime('now', '-N hours'); rowcount.
cleanup_old_snapshots(rows, max_age_hours, t) ==
    LET old == {r \in rows : r.recorded_at < t - max_age_hours * MinutesPerHour}
    IN  [rows |-> rows \ old, deleted |-> old, rowcount |-> Cardinality(old)]

\* --------------------------------------------------- monitor.py: helpers

\* event.get("closed") is True or str(event.get("closed")).lower() == "true"
\* closed is "true" (JSON true), "str_true" (the string "true"/"True"),
\* "false" (JSON false) or "absent".
is_closed(event) == event.closed \in {"true", "str_true"}

\* m.get("groupItemTitle") or m.get("outcome", "Unknown"); "" is a missing key.
OutcomeLabel(m) ==
    IF m.groupItemTitle # "" THEN m.groupItemTitle
    ELSE IF m.outcome # "" THEN m.outcome ELSE "Unknown"

\* The loop of _extract_prices.  raised: float(m["lastTradePrice"]) stands
\* outside the try block, so an unparsable last-trade price leaves the
\* function as a ValueError.
RECURSIVE ExtractPricesLoop(_, _, _)
ExtractPricesLoop(markets, i, prices) ==
    IF i > Len(markets) THEN [raised |-> FALSE, prices |-> prices]
    ELSE LET m == markets[i]
             outcome == OutcomeLabel(m)
             price == m.outcomePrices
             last == m.lastTradePrice
         IN  IF price.tag # "absent"
             THEN ExtractPricesLoop(markets, i + 1,
                      IF price.tag = "ok" THEN DictSet(prices, outcome, Some(price.v))
                      ELSE IF price.tag = "empty" THEN DictSet(prices, outcome, None)
                      ELSE prices)
             ELSE IF last.tag # "absent"
             THEN IF last.tag = "ok"
                  THEN ExtractPricesLoop(markets, i + 1, DictSet(prices, outcome, Some(last.v)))
                  ELSE [raised |-> TRUE, prices |-> <<>>]
             ELSE ExtractPricesLoop(markets, i + 1, prices)

extract_prices(event) ==
    IF event.markets = <<>> THEN [raised |-> FALSE, prices |-> <<>>]
    ELSE ExtractPricesLoop(event.markets, 1, <<>>)

\* event.get("volume", 0) or event.get("volume24hr", 0) or 0, then float().
extract_volume(event) ==
    LET vol == IF event.volume.tag # "absent" /\ ~(event.volume.tag = "ok" /\ event.volume.v = 0)
               THEN event.volume
               ELSE IF event.volume24hr.tag # "absent"
                       /\ ~(event.volume24hr.tag = "ok" /\ event.volume24hr.v = 0)
               THEN event.volume24hr
               ELSE Ok(0)
    IN  IF vol.tag = "ok" THEN Some(vol.v) ELSE None

RECURSIVE ExtractResolutionLoop(_, _)
ExtractResolutionLoop(markets, i) ==
    IF i > Len(markets) THEN [outcome |-> "Unknown", final_price |-> None]
    ELSE LET m == markets[i]
             price == IF m.outcomePrices.tag = "ok" THEN Some(m.outcomePrices.v) ELSE None
         IN  IF m.outcomePrices.tag # "absent" /\ price.some /\ price.v > ResolutionPrice
             THEN [outcome |-> OutcomeLabel(m), final_price |-> price]
             ELSE ExtractResolutionLoop(markets, i + 1)

\* A faulty _extract_resolution that takes the first entry whatever its price.
extract_resolution_first(event) ==
    IF event.markets # <<>> /\ event.markets[1].outcomePrices.tag = "ok"
    THEN [outcome |-> OutcomeLabel(event.markets[1]),
          final_price |-> Some(event.markets[1].outcomePrices.v)]
    ELSE [outcome |-> "Unknown", final_price |-> None]

extract_resolution(event) == ExtractResolutionLoop(event.markets, 1)

\* ------------------------------------------------- monitor.py: detectors

Alert(type, event, details) == [type |-> type, event_id |-> event.id, details |-> details]

NoDetails == [none |-> TRUE]

\* A detector's outcome: it raised, or it returned None (<<>>) or an Alert.
Returned(a) == [raised |-> FALSE, alert |-> a]
Raised == [raised |-> TRUE, alert |-> <<>>]

\* A faulty _check_new_market without the is_seen early return.
check_new_market_unchecked(seen, event, first_run, c, t) ==
    [seen |-> mark_seen(seen, event.id),
     out |-> IF first_run THEN Returned(<<>>)
             ELSE Returned(<<Alert("new_market", event, NoDetails)>>)]

\* A faulty _check_new_market that leaves the id unseen when it returns an
\* alert, as if marking were left to the delivery.
check_new_market_unmarked(seen, event, first_run, c, t) ==
    IF is_seen(seen, event.id) THEN [seen |-> seen, out |-> Returned(<<>>)]
    ELSE IF first_run
    THEN [seen |-> mark_seen(seen, event.id), out |-> Returned(<<>>)]
    ELSE [seen |-> seen, out |-> Returned(<<Alert("new_market", event, NoDetails)>>)]

\* Returns the seen set as well: mark_seen commits before anything can raise.
check_new_market(seen, event, first_run, c, t) ==
    IF is_seen(seen, event.id) THEN [seen |-> seen, out |-> Returned(<<>>)]
    ELSE LET seen2 == mark_seen(seen, event.id)
             max_age == c.new_market_max_age_hours
             created == event.createdAt
         IN  [seen |-> seen2,
              out |->
                IF first_run THEN Returned(<<>>)
                ELSE IF created.tag # "absent" /\ max_age > 0
                THEN IF created.tag = "nonstr" THEN Raised
                     ELSE IF created.tag = "ok" /\ (t - created.v) > max_age * MinutesPerHour
                     THEN Returned(<<>>)
                     ELSE Returned(<<Alert("new_market", event, NoDetails)>>)
                ELSE Returned(<<Alert("new_market", event, NoDetails)>>)]

\* A faulty _check_closing_soon without the has_alert gate.
check_closing_soon_ungated(sentRows, event, c, t) ==
    IF event.endDate.tag = "ok"
       /\ event.endDate.v - t > 0
       /\ event.endDate.v - t <= c.closing_alert_hours * MinutesPerHour
    THEN Returned(<<Alert("closing_soon", event, NoDetails)>>)
    ELSE Returned(<<>>)

check_closing_soon(sentRows, event, c, t) ==
    LET endd == event.endDate
        remaining == endd.v - t
    IN  IF endd.tag = "absent" THEN Returned(<<>>)
        ELSE IF endd.tag = "nonstr" THEN Raised
        ELSE IF endd.tag = "bad" THEN Returned(<<>>)
        ELSE IF endd.tag = "naive" THEN Raised
        ELSE IF remaining <= 0 \/ remaining > c.closing_alert_hours * MinutesPerHour
        THEN Returned(<<>>)
        ELSE IF has_alert(sentRows, event.id, "closing_soon") THEN Returned(<<>>)
        ELSE Returned(<<Alert("closing_soon", event,
                 [hours_left |-> remaining \div MinutesPerHour,
                  minutes_left |-> remaining % MinutesPerHour])>>)

check_resolved(seen, sentRows, event) ==
    IF ~is_closed(event) THEN Returned(<<>>)
    ELSE IF ~is_seen(seen, event.id) THEN Returned(<<>>)
    ELSE IF has_alert(sentRows, event.id, "resolved") THEN Returned(<<>>)
    ELSE LET r == extract_resolution(event)
         IN  Returned(<<Alert("resolved", event,
                 [outcome |-> r.outcome, final_price |-> r.final_price])>>)

Abs(x) == IF x < 0 THEN -x ELSE x

\* The cooldown check of _check_price_move and _check_volume_spike:
\* TRUE when the alert is held back.
InCooldown(sentRows, event_id, kind, cooldown_minutes, t) ==
    LET last == last_alert_time(sentRows, event_id, kind)
    IN  last.some /\ (t - last.v) < cooldown_minutes

check_price_move(rows, sentRows, event, c, t) ==
    LET x == extract_prices(event)
        snapshot == get_snapshot(rows, event.id, c.price_lookback_minutes, t)
        new_price == x.prices[1].price
        old_price == snapshot.outcome_prices[1].price
    IN  IF x.raised THEN Raised
        ELSE IF x.prices = <<>> THEN Returned(<<>>)
        ELSE IF ~snapshot.found \/ snapshot.outcome_prices = <<>> THEN Returned(<<>>)
        ELSE IF ~new_price.some \/ ~old_price.some THEN Returned(<<>>)
        ELSE IF Abs(new_price.v - old_price.v) < c.price_threshold THEN Returned(<<>>)
        ELSE IF InCooldown(sentRows, event.id, "price_move", c.price_cooldown_minutes, t)
        THEN Returned(<<>>)
        ELSE Returned(<<Alert("price_move", event,
                 [old_price |-> old_price.v, new_price |-> new_price.v,
                  change |-> new_price.v - old_price.v,
                  lookback_minutes |-> c.price_lookback_minutes])>>)

\* multiplier < cfg.volume_spike_multiplier is volume < old_volume * multiplier
\* for a positive old_volume.
check_volume_spike(rows, sentRows, event, c, t) ==
    LET volume == extract_volume(event)
        snapshot == get_snapshot(rows, event.id, c.volume_lookback_minutes, t)
        old_volume == snapshot.volume_24hr
    IN  IF ~volume.some \/ volume.v <= 0 THEN Returned(<<>>)
        ELSE IF ~snapshot.found \/ ~old_volume.some \/ old_volume.v <= 0 THEN Returned(<<>>)
        ELSE IF volume.v < old_volume.v * c.volume_spike_multiplier THEN Returned(<<>>)
        ELSE IF InCooldown(sentRows, event.id, "volume_spike", c.volume_cooldown_minutes, t)
        THEN Returned(<<>>)
        ELSE Returned(<<Alert("volume_spike", event,
                 [old_volume |-> old_volume.v, new_volume |-> volume.v,
                  lookback_minutes |-> c.volume_lookback_minutes])>>)

\* ---------------------------------------------------- monitor.py: poll

\* all_events = {e["id"]: e for e in active_events}: a later record of an
\* id replaces the earlier one and keeps its place.
RECURSIVE MergeActive(_, _, _)
MergeActive(batch, i, all) ==
    IF i > Len(batch) THEN all
    ELSE LET e == batch[i]
         IN  MergeActive(batch, i + 1,
                 IF \E j \in DOMAIN all : all[j].id = e.id
                 THEN [j \in DOMAIN all |-> IF all[j].id = e.id THEN e ELSE all[j]]
                 ELSE Append(all, e))

\* all_events.setdefault(e["id"], e): an id already present keeps its record.
RECURSIVE MergeClosed(_, _, _)
MergeClosed(batch, i, all) ==
    IF i > Len(batch) THEN all
    ELSE LET e == batch[i]
         IN  MergeClosed(batch, i + 1,
                 IF \E j \in DOMAIN all : all[j].id = e.id THEN all ELSE Append(all, e))

\* A merge in which the closed batch wins: the closed records first, an
\* active record only for an id not yet present.
all_events_closed_wins(active, closed) ==
    MergeClosed(active, 1, MergeClosed(closed, 1, <<>>))

all_events_of(active, closed) == MergeClosed(closed, 1, MergeActive(active, 1, <<>>))

\* A faulty loop body that saves the snapshot of an open record before the
\* trend detectors read the table.
PollEvent_saving_first(st, event, first_run, c, sentRows, t) ==
    LET enabled == c.enabled_alerts
        closed == is_closed(event)
        prices == extract_prices(event)
        volume == extract_volume(event)
        rows == IF closed \/ prices.raised THEN st.rows
                ELSE save_snapshot(st.rows, st.seq, event.id, prices.prices, volume, t)
        nm == IF "new_market" \in enabled
              THEN check_new_market(st.seen, event, first_run, c, t)
              ELSE [seen |-> IF ~is_seen(st.seen, event.id)
                             THEN mark_seen(st.seen, event.id) ELSE st.seen,
                    out |-> Returned(<<>>)]
        cs == IF "closing_soon" \in enabled /\ ~closed
              THEN check_closing_soon(sentRows, event, c, t) ELSE Returned(<<>>)
        rs == IF "resolved" \in enabled
              THEN check_resolved(nm.seen, sentRows, event) ELSE Returned(<<>>)
        pm == IF "price_move" \in enabled /\ ~closed
              THEN check_price_move(rows, sentRows, event, c, t) ELSE Returned(<<>>)
        vs == IF "volume_spike" \in enabled /\ ~closed
              THEN check_volume_spike(rows, sentRows, event, c, t) ELSE Returned(<<>>)
    IN  IF nm.out.raised \/ cs.raised \/ rs.raised \/ pm.raised \/ vs.raised
           \/ (~closed /\ prices.raised)
        THEN [st EXCEPT !.seen = nm.seen, !.raised = TRUE]
        ELSE [seen |-> nm.seen,
              rows |-> rows,
              seq |-> IF closed THEN st.seq ELSE st.seq + 1,
              alerts |-> st.alerts \o nm.out.alert \o cs.alert \o rs.alert
                             \o pm.alert \o vs.alert,
              raised |-> FALSE]

\* The body of the loop over all_events for one event.  st carries the
\* tables poll() writes, the alerts collected so far and whether an
\* exception has left poll().  Writes made before a raise stay committed,
\* and the list holds what was appended before it.
PollEvent(st, event, first_run, c, sentRows, t) ==
    LET enabled == c.enabled_alerts
        closed == is_closed(event)
        nm == IF "new_market" \in enabled
              THEN check_new_market(st.seen, event, first_run, c, t)
              ELSE [seen |-> IF ~is_seen(st.seen, event.id)
                             THEN mark_seen(st.seen, event.id) ELSE st.seen,
                    out |-> Returned(<<>>)]
        cs == IF "closing_soon" \in enabled /\ ~closed
              THEN check_closing_soon(sentRows, event, c, t) ELSE Returned(<<>>)
        rs == IF "resolved" \in enabled
              THEN check_resolved(nm.seen, sentRows, event) ELSE Returned(<<>>)
        pm == IF "price_move" \in enabled /\ ~closed
              THEN check_price_move(st.rows, sentRows, event, c, t) ELSE Returned(<<>>)
        vs == IF "volume_spike" \in enabled /\ ~closed
              THEN check_volume_spike(st.rows, sentRows, event, c, t) ELSE Returned(<<>>)
        prices == extract_prices(event)
        volume == extract_volume(event)
        collected ==
            st.alerts \o nm.out.alert \o
            (IF nm.out.raised THEN <<>> ELSE cs.alert \o
            (IF cs.raised THEN <<>> ELSE rs.alert \o
            (IF rs.raised THEN <<>> ELSE pm.alert \o
            (IF pm.raised THEN <<>> ELSE vs.alert))))
        aborted == [st EXCEPT !.seen = nm.seen, !.alerts = collected, !.raised = TRUE]
    IN  IF nm.out.raised \/ cs.raised \/ rs.raised \/ pm.raised \/ vs.raised THEN aborted
        ELSE IF ~closed /\ prices.raised THEN aborted
        ELSE [seen |-> nm.seen,
              rows |-> IF closed THEN st.rows
                       ELSE save_snapshot(st.rows, st.seq, event.id, prices.prices, volume, t),
              seq |-> IF closed THEN st.seq ELSE st.seq + 1,
              alerts |-> st.alerts \o nm.out.alert \o cs.alert \o rs.alert
                             \o pm.alert \o vs.alert,
              raised |-> FALSE]

RECURSIVE PollLoop(_, _, _, _, _, _, _)
PollLoop(st, all, i, first_run, c, sentRows, t) ==
    IF i > Len(all) \/ st.raised THEN st
    ELSE PollLoop(PollEvent(st, all[i], first_run, c, sentRows, t),
                  all, i + 1, first_run, c, sentRows, t)

\* Periodic cleanup, after the loop: every CleanupPeriod-th cycle.
PeriodicCleanup(rows, n, t) ==
    IF n % CleanupPeriod = 0
    THEN LET c == cleanup_old_snapshots(rows, CleanupMaxAgeHours, t)
         IN  [rows |-> c.rows, deleted |-> c.deleted, rowcount |-> c.rowcount,
              called |-> TRUE]
    ELSE [rows |-> rows, deleted |-> {}, rowcount |-> 0, called |-> FALSE]

\* A faulty _fetch_events that returns records although the request failed.
fetch_events_unhandled(failed, response) == response

\* _fetch_events: the filtered response, or [] when the request or the
\* parse failed (except (httpx.HTTPError, ValueError): return []).

fetch_events(failed, response) == IF failed THEN <<>> ELSE response

\* A faulty dispatch loop that records the alert whatever the sends did.
record_always(sentRows, was_sent, alert, t) ==
    record_alert(sentRows, alert.event_id, alert.type, t)

\* main(): if sent: store.record_alert(alert.event["id"], alert.type)
record_if_sent(sentRows, was_sent, alert, t) ==
    IF was_sent THEN record_alert(sentRows, alert.event_id, alert.type, t)
    ELSE sentRows

\* ----------------------------------------------------- the configuration

\* config.py defaults are 2.0 h, 0.15, 60 min, 30 min, 3.0, 60 min, 60 min
\* and a 60 s poll interval; the windows are shortened to fit the clock.
\* notifiers is the number of channels _build_notifiers returns.
BaseConfig ==
    [enabled_alerts |-> Kinds,
     new_market_max_age_hours |-> 0,
     closing_alert_hours |-> 1,
     price_threshold |-> 25,
     price_lookback_minutes |-> 0,
     price_cooldown_minutes |-> 2,
     volume_spike_multiplier |-> 3,
     volume_lookback_minutes |-> 0,
     volume_cooldown_minutes |-> 2,
     poll_interval_sec |-> 60,
     notifiers |-> 1]

\* ------------------------------------------------------- upstream inputs

Yes(p) == Market("Yes", "", Ok(p), Absent)
No(p) == Market("", "No", Ok(p), Absent)

\* Open markets of e1.
Open50 == Event("e1", "false", Absent, Absent, <<Yes(50)>>, Ok(1000), Absent)
Open75 == Event("e1", "false", Absent, Absent, <<Yes(75)>>, Ok(1000), Absent)
OpenVol == Event("e1", "false", Absent, Field("naive", 0), <<Yes(50)>>, Absent, Ok(3000))
\* Open markets of e1 with an end and a creation time.
OpenSoon == Event("e1", "false", Ok(2), Ok(0 - 59), <<Yes(50)>>, Ok(1000), Absent)
OpenLater == Event("e1", "false", Ok(61), Absent, <<Yes(50)>>, Ok(1000), Absent)
\* An open market with no markets list and no volume field.
OpenBare == Event("e1", "false", Absent, Absent, <<>>, Absent, Absent)
\* Fields that do not parse, each caught where it is read.
OpenGarbled == Event("e1", "false", Bad, Bad,
                     <<Market("Yes", "", Bad, Ok(50))>>, Bad, Absent)
\* A last-trade price that does not parse; a timestamp without an offset.
OpenBadLast == Event("e1", "absent", Absent, Absent,
                     <<Market("Yes", "", Absent, Bad)>>, Ok(1000), Absent)
OpenNaiveEnd == Event("e1", "false", Field("naive", 0), Absent, <<Yes(75)>>, Ok(1000), Absent)
\* Open markets of e2.
Other50 == Event("e2", "false", Absent, Ok(0 - 59), <<Yes(50)>>, Ok(1000), Absent)
OtherSoon == Event("e2", "false", Ok(62), Absent, <<Yes(50)>>, Ok(1000), Absent)
OtherNaiveEnd == Event("e2", "false", Field("naive", 0), Absent, <<Yes(50)>>, Ok(1000), Absent)

\* Closed markets.
ClosedYes == Event("e1", "true", Ok(0), Absent, <<Yes(100)>>, Ok(1000), Absent)
ClosedNo == Event("e1", "str_true", Absent, Absent, <<Yes(50), No(100)>>, Ok(1000), Absent)
ClosedEdge == Event("e1", "true", Absent, Absent,
                    <<Yes(90), Market("No", "", Absent, Ok(100))>>, Absent, Absent)
OtherClosed == Event("e2", "true", Absent, Absent, <<>>, Absent, Absent)

\* What the process starts from: a new Monitor on a new database, or a
\* Monitor whose earlier cycles left rows behind, two cycles before the
\* cleanup is due.
Fresh == [cycle |-> 0, seen |-> {}, rows |-> {}, seq |-> 0]

OldRow(id, t) ==
    [id |-> id, event_id |-> "e1",
     outcome_prices |-> json_dumps_or_null(<<[label |-> "Yes", price |-> Some(50)]>>),
     volume_24hr |-> Some(1000), recorded_at |-> t]

LongRunning ==
    [cycle |-> CleanupPeriod - 2, seen |-> {"e1"},
     rows |-> {OldRow(1, 0 - CleanupMaxAgeHours * MinutesPerHour - 1),
               OldRow(2, 0 - CleanupMaxAgeHours * MinutesPerHour + 1)},
     seq |-> 2]

\* A run: a configuration, the state at start, and what the active and
\* the closed query may return after filtering.
Run(c, start, active, closed) ==
    [cfg |-> c, start |-> start, active |-> active, closed |-> closed]

Runs ==
    { \* price and volume trends under the cooldown
      Run(BaseConfig, Fresh,
          {<<>>, <<Open50>>, <<Open75>>, <<OpenVol>>}, {<<>>}),
      \* a two-minute lookback
      Run([BaseConfig EXCEPT !.price_lookback_minutes = 2,
                             !.volume_lookback_minutes = 2], Fresh,
          {<<Open50>>, <<Open75>>, <<OpenVol>>}, {<<>>}),
      \* closing and resolution
      Run(BaseConfig, Fresh,
          {<<>>, <<OpenSoon>>, <<OpenLater>>},
          {<<>>, <<ClosedYes>>, <<ClosedNo>>, <<ClosedEdge>>}),
      \* two channels, two markets, an id in both batches
      Run([BaseConfig EXCEPT !.notifiers = 2], Fresh,
          {<<>>, <<Open50, Other50>>, <<Other50, Open75>>},
          {<<>>, <<OtherClosed, ClosedYes>>}),
      \* fields that do not parse
      Run(BaseConfig, Fresh,
          {<<OpenGarbled>>, <<OpenBadLast, Other50>>, <<Other50, OpenNaiveEnd>>,
           <<Other50>>, <<Open50>>, <<Open75>>, <<Open50, OtherNaiveEnd>>,
           <<OpenSoon, OtherNaiveEnd>>, <<OpenVol, OtherNaiveEnd>>}, {<<>>}),
      \* detectors switched off, the maximum age, no channel
      Run([BaseConfig EXCEPT !.enabled_alerts = {"closing_soon", "resolved", "price_move"},
                             !.notifiers = 0], Fresh,
          {<<>>, <<Open50>>, <<OpenSoon, Other50>>, <<Open75>>, <<OpenBare>>},
          {<<>>, <<ClosedYes>>}),
      Run([BaseConfig EXCEPT !.new_market_max_age_hours = 1], Fresh,
          {<<>>, <<OpenSoon>>, <<Other50>>, <<OtherSoon>>}, {<<>>}),
      \* the sixtieth cycle
      Run(BaseConfig, LongRunning, {<<>>, <<Open50>>, <<Open75>>, <<OpenNaiveEnd>>}, {<<>>}) }

\* The runs in which the database can fail.
FaultRuns ==
    { Run(BaseConfig, Fresh,
          {<<Open50>>, <<Other50>>, <<OpenSoon, Other50>>, <<Other50, OpenNaiveEnd>>},
          {<<>>}) }

\* ------------------------------------------------------- main.py: main

Pcs == {"loop", "fetch_active", "fetch_closed", "send", "wait", "closing", "done"}

NoDet ==
    [valid |-> FALSE, first_run |-> FALSE, failed |-> <<FALSE, FALSE>>,
     active |-> <<>>, closed |-> <<>>, all |-> <<>>,
     seen |-> {}, rows |-> {}, seq |-> 0, sent |-> {}, cleanup |-> FALSE,
     raised |-> FALSE]

NoCall ==
    [op |-> "none", at |-> 0, event_id |-> "", alert_type |-> "", arg |-> 0,
     before |-> {}, found |-> FALSE, id |-> 0, count |-> 0]

OnceKinds == {"new_market", "closing_soon", "resolved"}

\* The exception the except clause of the main loop caught since the
\* last cycle started, and the cycle it ended.
NoError == [kind |-> "none", at |-> "none", cycle |-> 0]

\* The state when main() enters its loop.  store_raises holds what a call
\* of the Store can do: FALSE is to return, TRUE is to raise sqlite3.Error.
Start(runs, store_raises) ==
    /\ \E r \in runs :
          /\ cfg = r.cfg
          /\ feed = [active |-> r.active, closed |-> r.closed,
                     store_raises |-> store_raises]
          /\ cycle = r.start.cycle
          /\ seen_events = r.start.seen
          /\ market_snapshots = r.start.rows
          /\ snapshot_seq = r.start.seq
          /\ open = [notifiers |-> r.cfg.notifiers, store |-> TRUE]
    /\ now = 0
    /\ pc = "loop"
    /\ shutdown = FALSE
    /\ is_first_run = FALSE
    /\ active_events = <<>>
    /\ active_failed = FALSE
    /\ alerts_sent = {}
    /\ alerts = <<>>
    /\ idx = 0
    /\ ch = 0
    /\ sent = FALSE
    /\ results = <<>>
    /\ det = NoDet
    /\ emitted = [k \in Ids \X OnceKinds |-> 0]
    /\ committed = {}
    /\ undelivered = {}
    /\ swept = {}
    /\ marked = {}
    /\ last_call = NoCall
    /\ error = NoError
    /\ dropped = {}

\* A database that answers every call.
Init == Start(Runs, {FALSE})

\* A database whose calls can fail.
InitFault == Start(FaultRuns, BOOLEAN)

storeVars == <<seen_events, market_snapshots, snapshot_seq, alerts_sent, committed,
               swept, marked, last_call>>
pollVars == <<cycle, is_first_run, active_events, active_failed, emitted>>
sendVars == <<idx, ch, sent, results, undelivered, dropped>>

\* The <<id, kind>> pairs of the alerts as[i], i >= from.
PairsFrom(as, from) ==
    {<<as[i].event_id, as[i].type>> : i \in {j \in DOMAIN as : j >= from}}

\* A main loop whose condition never fails.
loop_condition_ignoring(is_set) == TRUE

\* while not shutdown.is_set():
loop_condition(is_set) == ~is_set

\* The signal handler: shutdown.set().  It can run at any await.
HandleSignal ==
    /\ pc # "done"
    /\ ~shutdown
    /\ shutdown' = TRUE
    /\ det' = NoDet
    /\ UNCHANGED <<cfg, feed, open, error, now, pc, alerts, storeVars, pollVars, sendVars>>

\* A main loop without its except clause: the exception ends main().
after_poll_error_fatal == "done"

\* except Exception: log.exception("poll_error"), and on to the wait.
after_poll_error == "wait"

\* A poll() that takes its first cycle, by the counter, for the backfill.
first_run_by_counter(seen, n) == n = 1

\* is_first_run = self._store.is_empty(), whatever self._cycle is.
first_run_of(seen, n) == is_empty(seen)

\* while not shutdown.is_set(): enter poll(), up to the first await; the
\* first call of the Store in it is is_empty().
PollStart ==
    /\ pc = "loop"
    /\ loop_condition(shutdown)
    /\ cycle' = cycle + 1
    /\ \E raises \in feed.store_raises :
          IF raises
          THEN /\ is_first_run' = is_first_run
               /\ pc' = after_poll_error
               /\ error' = [kind |-> "store", at |-> "poll", cycle |-> cycle']
          ELSE /\ is_first_run' = first_run_of(seen_events, cycle')
               /\ pc' = "fetch_active"
               /\ error' = NoError
    /\ UNCHANGED <<cfg, feed, open, now, shutdown, alerts, storeVars, sendVars,
                   active_events, active_failed, emitted, det>>

\* _fetch_events for the active query: the filtered response, or [] when
\* the request failed; then up to the next await.
FetchActive ==
    /\ pc = "fetch_active"
    /\ \E failed \in BOOLEAN : \E response \in feed.active :
          /\ active_events' = fetch_events(failed, response)
          /\ active_failed' = failed
    /\ pc' = "fetch_closed"
    /\ UNCHANGED <<cfg, feed, open, error, now, shutdown, alerts, storeVars, sendVars, cycle,
                   is_first_run, emitted, det>>

\* The end of poll() after the loop left st: the periodic cleanup and
\* `return alerts`, or the exception, which skips both.  saved is the
\* snapshot table before the cleanup, lost the list the exception discards.
PollReturn(all, st, n, t) ==
    [all |-> all, seen |-> st.seen, saved |-> st.rows,
     rows |-> IF st.raised THEN st.rows ELSE PeriodicCleanup(st.rows, n, t).rows,
     seq |-> st.seq,
     cleanup |-> IF st.raised THEN FALSE ELSE PeriodicCleanup(st.rows, n, t).called,
     alerts |-> IF st.raised THEN <<>> ELSE st.alerts,
     lost |-> IF st.raised THEN st.alerts ELSE <<>>, raised |-> st.raised]

\* The loop over all_events, from the store as it is.
PollAll(all) ==
    PollReturn(all,
               PollLoop([seen |-> seen_events, rows |-> market_snapshots,
                         seq |-> snapshot_seq, alerts |-> <<>>, raised |-> FALSE],
                        all, 1, is_first_run, cfg, alerts_sent, now),
               cycle, now)

\* What the rest of poll() computes from the two batches and the store.
PollResult(active, closed) == PollAll(all_events_of(active, closed))

\* The emitted counters after poll() returned the list as.
Count(as, id, kind) ==
    Cardinality({i \in DOMAIN as : as[i].event_id = id /\ as[i].type = kind})

CountEmitted(counts, as) ==
    [k \in Ids \X OnceKinds |->
        LET n == counts[k] + Count(as, k[1], k[2])
        IN  IF n > EmitCap THEN EmitCap ELSE n]

\* _fetch_events for the closed query, then the synchronous rest of poll()
\* and main() up to its next await: the first send, or the wait when
\* nothing is to be sent or poll() raised (except Exception: "poll_error").
Detect ==
    /\ pc = "fetch_closed"
    /\ \E failed \in BOOLEAN : \E response \in feed.closed :
          /\ \E batch \in {fetch_events(failed, response)} :
             \E r \in {PollResult(active_events, batch)} :
                 /\ r.seq <= MaxSnapshots
                 /\ seen_events' = r.seen
                 /\ market_snapshots' = r.rows
                 /\ snapshot_seq' = r.seq
                 /\ swept' = swept \cup {x.id : x \in r.saved \ r.rows}
                 /\ alerts' = r.alerts
                 /\ emitted' = CountEmitted(emitted, r.alerts)
                 /\ dropped' = dropped \cup PairsFrom(r.lost, 1)
                 /\ pc' = IF r.raised THEN after_poll_error
                          ELSE IF r.alerts = <<>> THEN "wait" ELSE "send"
                 /\ error' = IF r.raised
                             THEN [kind |-> "field", at |-> "poll", cycle |-> cycle]
                             ELSE error
                 /\ idx' = IF r.alerts = <<>> THEN 0 ELSE 1
                 /\ ch' = IF r.alerts = <<>> THEN 0 ELSE 1
                 /\ det' = [valid |-> TRUE, first_run |-> is_first_run,
                            failed |-> <<active_failed, failed>>,
                            active |-> active_events, closed |-> batch,
                            all |-> r.all, seen |-> seen_events,
                            rows |-> market_snapshots, seq |-> snapshot_seq,
                            sent |-> alerts_sent, cleanup |-> r.cleanup,
                            raised |-> r.raised]
    /\ sent' = FALSE
    /\ results' = <<>>
    /\ active_events' = <<>>
    /\ active_failed' = FALSE
    /\ UNCHANGED <<cfg, feed, open, now, shutdown, alerts_sent, committed, undelivered,
                   marked, last_call, cycle, is_first_run>>

\* A dispatch loop whose except clause gives up the alert: a failed send
\* ends the loop over the notifiers.
next_notifier_giving_up(c, ok, n) == IF ok THEN c + 1 ELSE n + 1

\* for notifier in notifiers: the except clause only logs, so the loop goes
\* on with the next notifier whether or not the send raised.
next_notifier(c, ok, n) == c + 1

\* await notifier.send(msg) on notifier ch: it returns or it raises.
Send ==
    /\ pc = "send"
    /\ ch <= cfg.notifiers
    /\ \E ok \in BOOLEAN :
          /\ sent' = (sent \/ ok)
          /\ results' = Append(results, ok)
          /\ ch' = next_notifier(ch, ok, cfg.notifiers)
    /\ det' = NoDet
    /\ UNCHANGED <<cfg, feed, open, error, now, pc, shutdown, alerts, idx, undelivered,
                   dropped, storeVars, pollVars>>

\* if sent: store.record_alert(...), then the next alert or the wait.
Commit ==
    /\ pc = "send"
    /\ ch > cfg.notifiers
    /\ \E raises \in (IF sent THEN feed.store_raises ELSE {FALSE}) :
          IF raises
          THEN /\ alerts_sent' = alerts_sent
               /\ committed' = committed
               /\ undelivered' = undelivered \ {<<alerts[idx].event_id, alerts[idx].type>>}
               /\ idx' = 0
               /\ ch' = 0
               /\ pc' = after_poll_error
               /\ alerts' = <<>>
               /\ error' = [kind |-> "store", at |-> "dispatch", cycle |-> cycle]
               /\ dropped' = dropped \cup PairsFrom(alerts, idx + 1)
          ELSE /\ alerts_sent' = record_if_sent(alerts_sent, sent, alerts[idx], now)
               /\ committed' = IF alerts_sent' # alerts_sent \/ sent
                               THEN committed \cup {<<alerts[idx].event_id, alerts[idx].type>>}
                               ELSE committed
               /\ undelivered' = IF sent
                                 THEN undelivered \ {<<alerts[idx].event_id, alerts[idx].type>>}
                                 ELSE undelivered \cup {<<alerts[idx].event_id, alerts[idx].type>>}
               /\ IF idx < Len(alerts)
                  THEN /\ idx' = idx + 1
                       /\ ch' = 1
                       /\ pc' = "send"
                       /\ alerts' = alerts
                  ELSE /\ idx' = 0
                       /\ ch' = 0
                       /\ pc' = "wait"
                       /\ alerts' = <<>>
               /\ error' = error
               /\ dropped' = dropped
    /\ sent' = FALSE
    /\ results' = <<>>
    /\ det' = NoDet
    /\ UNCHANGED <<cfg, feed, open, now, shutdown, seen_events, market_snapshots,
                   snapshot_seq, swept, marked, last_call, pollVars>>

\* asyncio.wait_for(shutdown.wait(), timeout=poll_interval_sec): the timeout.
WaitTimeout ==
    /\ pc = "wait"
    /\ ~shutdown
    /\ now < MaxNow
    /\ now' = now + cfg.poll_interval_sec \div 60
    /\ pc' = "loop"
    /\ det' = NoDet
    /\ UNCHANGED <<cfg, feed, open, error, shutdown, alerts, storeVars, pollVars, sendVars>>

\* The same wait when shutdown is set: it returns at once.
WaitInterrupted ==
    /\ pc = "wait"
    /\ shutdown
    /\ pc' = "loop"
    /\ det' = NoDet
    /\ UNCHANGED <<cfg, feed, open, error, now, shutdown, alerts, storeVars, pollVars, sendVars>>

\* The loop condition fails: leave the while loop.
LoopExit ==
    /\ pc = "loop"
    /\ ~loop_condition(shutdown)
    /\ pc' = "closing"
    /\ UNCHANGED <<cfg, feed, error, now, shutdown, alerts, open, storeVars, pollVars,
                   sendVars, det>>

\* Cleanup: close every notifier (a close that raises is passed over),
\* then the store.
Shutdown ==
    /\ pc = "closing"
    /\ open' = [notifiers |-> 0, store |-> FALSE]
    /\ pc' = "done"
    /\ UNCHANGED <<cfg, feed, error, now, shutdown, alerts, storeVars, pollVars,
                   sendVars, det>>

Next ==
    \/ HandleSignal
    \/ PollStart
    \/ FetchActive
    \/ Detect
    \/ Send
    \/ Commit
    \/ WaitTimeout
    \/ WaitInterrupted
    \/ LoopExit
    \/ Shutdown

Spec == Init /\ [][Next]_vars

\* The same program over a database whose calls can fail.
SpecFault == InitFault /\ [][Next]_vars

\* ------------------------------------------- store.py driven directly
\* The Store as tests/test_store.py uses it: a caller invokes its methods
\* in any order while time passes.  last_call records the call and what
\* it returned.

HalfHour == MinutesPerHour \div 2

InitStore ==
    /\ cfg = BaseConfig
    /\ feed = [active |-> {<<>>}, closed |-> {<<>>}, store_raises |-> {FALSE}]
    /\ now = 0
    /\ pc = "done"
    /\ shutdown = FALSE
    /\ cycle = 0
    /\ is_first_run = FALSE
    /\ active_events = <<>>
    /\ active_failed = FALSE
    /\ seen_events = {}
    /\ market_snapshots = {}
    /\ snapshot_seq = 0
    /\ open = [notifiers |-> 0, store |-> TRUE]
    /\ alerts_sent = {}
    /\ alerts = <<>>
    /\ idx = 0
    /\ ch = 0
    /\ sent = FALSE
    /\ results = <<>>
    /\ det = NoDet
    /\ emitted = [k \in Ids \X OnceKinds |-> 0]
    /\ committed = {}
    /\ undelivered = {}
    /\ swept = {}
    /\ marked = {}
    /\ last_call = NoCall
    /\ error = NoError
    /\ dropped = {}

mainVars == <<cfg, feed, pc, shutdown, alerts, open, error, pollVars, sendVars, det>>

\* Time passes between two calls.
StoreClock ==
    /\ now < MaxStoreTicks * HalfHour
    /\ now' = now + HalfHour
    /\ UNCHANGED <<mainVars, storeVars>>

\* store.save_snapshot(event_id, prices, volume)
StoreSaveSnapshot ==
    /\ snapshot_seq < MaxStoreRows
    /\ \E event_id \in Ids :
       \E data \in {[prices |-> <<>>, volume |-> None],
                    [prices |-> <<[label |-> "Yes", price |-> Some(50)]>>,
                     volume |-> Some(1000)]} :
          /\ market_snapshots' = save_snapshot(market_snapshots, snapshot_seq, event_id,
                                               data.prices, data.volume, now)
          /\ last_call' = [NoCall EXCEPT !.op = "save_snapshot", !.at = now,
                                         !.event_id = event_id,
                                         !.before = market_snapshots]
    /\ snapshot_seq' = snapshot_seq + 1
    /\ UNCHANGED <<mainVars, now, seen_events, alerts_sent, committed, swept, marked>>

\* store.get_snapshot(event_id, minutes_ago)
StoreGetSnapshot ==
    /\ \E event_id \in Ids : \E minutes_ago \in {0, HalfHour} :
       \E row \in {get_snapshot(market_snapshots, event_id, minutes_ago, now)} :
          last_call' = [NoCall EXCEPT !.op = "get_snapshot", !.at = now,
                                      !.event_id = event_id,
                                      !.arg = minutes_ago, !.before = market_snapshots,
                                      !.found = row.found, !.id = row.id]
    /\ UNCHANGED <<mainVars, now, seen_events, market_snapshots, snapshot_seq,
                   alerts_sent, committed, swept, marked>>

\* store.cleanup_old_snapshots(max_age_hours)
StoreCleanup ==
    /\ \E max_age_hours \in {0, 1} :
       \E r \in {cleanup_old_snapshots(market_snapshots, max_age_hours, now)} :
          /\ market_snapshots' = r.rows
          /\ swept' = swept \cup {x.id : x \in r.deleted}
          /\ last_call' = [NoCall EXCEPT !.op = "cleanup_old_snapshots", !.at = now,
                                         !.arg = max_age_hours,
                                         !.before = market_snapshots,
                                         !.count = r.rowcount]
    /\ UNCHANGED <<mainVars, now, seen_events, snapshot_seq, alerts_sent, committed,
                   marked>>

NextStore ==
    \/ StoreClock
    \/ StoreSaveSnapshot
    \/ StoreGetSnapshot
    \/ StoreCleanup

SpecStore == InitStore /\ [][NextStore]_vars

\* ------------------------------------------ the seen set and the ledger
\* The Store driven directly on its two keyed tables, as tests/test_store.py
\* does: mark_seen, is_seen, is_empty, record_alert and has_alert are called
\* in any order while time passes.

StoreKinds == {"closing_soon", "resolved"}

\* store.mark_seen(event_id)
StoreMarkSeen ==
    /\ \E event_id \in Ids :
          /\ seen_events' = mark_seen(seen_events, event_id)
          /\ marked' = marked \cup {event_id}
          /\ last_call' = [NoCall EXCEPT !.op = "mark_seen", !.at = now,
                                         !.event_id = event_id,
                                         !.before = [seen |-> seen_events,
                                                     sent |-> alerts_sent]]
    /\ UNCHANGED <<mainVars, now, market_snapshots, snapshot_seq, alerts_sent,
                   committed, swept>>

\* store.is_seen(event_id)
StoreIsSeen ==
    /\ \E event_id \in Ids :
          last_call' = [NoCall EXCEPT !.op = "is_seen", !.at = now,
                                      !.event_id = event_id,
                                      !.found = is_seen(seen_events, event_id)]
    /\ UNCHANGED <<mainVars, now, seen_events, market_snapshots, snapshot_seq,
                   alerts_sent, committed, swept, marked>>

\* store.is_empty()
StoreIsEmpty ==
    /\ last_call' = [NoCall EXCEPT !.op = "is_empty", !.at = now,
                                   !.found = is_empty(seen_events)]
    /\ UNCHANGED <<mainVars, now, seen_events, market_snapshots, snapshot_seq,
                   alerts_sent, committed, swept, marked>>

\* store.record_alert(event_id, alert_type)
StoreRecordAlert ==
    /\ \E event_id \in Ids : \E alert_type \in StoreKinds :
          /\ alerts_sent' = record_alert(alerts_sent, event_id, alert_type, now)
          /\ committed' = committed \cup {<<event_id, alert_type>>}
          /\ last_call' = [NoCall EXCEPT !.op = "record_alert", !.at = now,
                                         !.event_id = event_id,
                                         !.alert_type = alert_type,
                                         !.before = alerts_sent]
    /\ UNCHANGED <<mainVars, now, seen_events, market_snapshots, snapshot_seq,
                   swept, marked>>

\* store.has_alert(event_id, alert_type)
StoreHasAlert ==
    /\ \E event_id \in Ids : \E alert_type \in StoreKinds :
          last_call' = [NoCall EXCEPT !.op = "has_alert", !.at = now,
                                      !.event_id = event_id,
                                      !.alert_type = alert_type,
                                      !.before = alerts_sent,
                                      !.found = has_alert(alerts_sent, event_id,
                                                          alert_type)]
    /\ UNCHANGED <<mainVars, now, seen_events, market_snapshots, snapshot_seq,
                   alerts_sent, committed, swept, marked>>

NextTables ==
    \/ StoreClock
    \/ StoreMarkSeen
    \/ StoreIsSeen
    \/ StoreIsEmpty
    \/ StoreRecordAlert
    \/ StoreHasAlert

SpecTables == InitStore /\ [][NextTables]_vars


\* ---------------------------------------------------------------- claims
\* det describes the poll() that has just returned or raised: the store
\* before it (det.seen, det.rows, det.sent), the merged records (det.all),
\* whether it raised; alerts is the list it returned.  The next step of
\* the loop resets det.

IdsOf(all) == {all[i].id : i \in DOMAIN all}

\* _check_new_market's maximum-age rule suppresses the record.
TooOld(event) ==
    /\ cfg.new_market_max_age_hours > 0
    /\ event.createdAt.tag = "ok"
    /\ now - event.createdAt.v > cfg.new_market_max_age_hours * MinutesPerHour

\* C1, as stated: in a cycle that begins with an empty store no new_market
\* alert is emitted, and every record of the merged set is marked seen by
\* the end of the cycle.
C1_Backfill ==
    (det.valid /\ det.first_run) =>
        /\ \A i \in DOMAIN alerts : alerts[i].type # "new_market"
        /\ \A j \in DOMAIN det.all : is_seen(seen_events, det.all[j].id)

C3_AtMostOneEver ==
    \A id \in Ids : \A kind \in {"closing_soon", "resolved"} :
        emitted[<<id, kind>>] <= 1

\* C3, amended: poll() emits at most one closing_soon and at most one
\* resolved alert per identifier in a cycle, and none in any cycle after an
\* alert of that kind has been committed for the identifier; an alert that
\* was never committed can be emitted again.
C3_NoneAfterCommit ==
    det.valid =>
        \A i \in DOMAIN alerts : alerts[i].type \in {"closing_soon", "resolved"} =>
            /\ <<alerts[i].event_id, alerts[i].type>> \notin committed
            /\ Count(alerts, alerts[i].event_id, alerts[i].type) = 1

\* C3's case: a closing_soon alert was committed for an open market that is
\* still inside the closing window, and the cycle emits none.
C3_Witness ==
    /\ det.valid /\ ~det.raised
    /\ \E j \in DOMAIN det.all :
          /\ <<det.all[j].id, "closing_soon">> \in committed
          /\ ~is_closed(det.all[j])
          /\ det.all[j].endDate.tag = "ok"
          /\ det.all[j].endDate.v - now > 0
          /\ det.all[j].endDate.v - now <= cfg.closing_alert_hours * MinutesPerHour
          /\ "closing_soon" \in cfg.enabled_alerts
          /\ Count(alerts, det.all[j].id, "closing_soon") = 0

\* C4, as stated: no resolved alert is emitted for a closed market whose
\* identifier was not in the seen set before the cycle that observes it.
C4_NoResolvedForUnseen ==
    det.valid =>
        \A i \in DOMAIN alerts : alerts[i].type = "resolved" =>
            is_seen(det.seen, alerts[i].event_id)

\* The record's first-outcome price against the baseline snapshot the
\* store held when the cycle began: the move reaches the threshold.
PriceCrossed(event) ==
    LET snapshot == get_snapshot(det.rows, event.id, cfg.price_lookback_minutes, now)
    IN  /\ ~is_closed(event)
        /\ event.markets # <<>>
        /\ event.markets[1].outcomePrices.tag = "ok"
        /\ snapshot.found
        /\ snapshot.outcome_prices # <<>>
        /\ snapshot.outcome_prices[1].price.some
        /\ Abs(event.markets[1].outcomePrices.v - snapshot.outcome_prices[1].price.v)
               >= cfg.price_threshold

\* The record's volume against the baseline snapshot: the ratio reaches
\* the multiplier.
VolumeCrossed(event) ==
    LET snapshot == get_snapshot(det.rows, event.id, cfg.volume_lookback_minutes, now)
        volume == extract_volume(event)
    IN  /\ ~is_closed(event)
        /\ volume.some /\ volume.v > 0
        /\ snapshot.found
        /\ snapshot.volume_24hr.some /\ snapshot.volume_24hr.v > 0
        /\ volume.v >= snapshot.volume_24hr.v * cfg.volume_spike_multiplier

Crossed(kind, event) ==
    /\ kind \in cfg.enabled_alerts
    /\ IF kind = "price_move" THEN PriceCrossed(event) ELSE VolumeCrossed(event)

CooldownOf(kind) ==
    IF kind = "price_move" THEN cfg.price_cooldown_minutes
    ELSE cfg.volume_cooldown_minutes

\* C5, as stated: a cycle whose observation crosses the threshold against
\* a baseline snapshot emits the alert when none was committed before;
\* after a commit, a qualifying cycle within the cooldown window emits
\* none, and a qualifying cycle after the window has expired emits again.
C5_Cooldown ==
    det.valid =>
        \A j \in DOMAIN det.all : \A kind \in {"price_move", "volume_spike"} :
            Crossed(kind, det.all[j]) =>
                LET last == last_alert_time(det.sent, det.all[j].id, kind)
                    n == Count(alerts, det.all[j].id, kind)
                IN  /\ ~last.some => n = 1
                    /\ (last.some /\ now - last.v < CooldownOf(kind)) => n = 0
                    /\ (last.some /\ now - last.v > CooldownOf(kind)) => n = 1

\* C6: the alerts_sent table changes only by record_alert for the alert
\* main() is dispatching, a member of the list poll() returned, after every
\* configured channel was tried and at least one send returned normally;
\* never with no channel configured.
C6_CommitAfterDelivery ==
    [][alerts_sent' # alerts_sent =>
          /\ pc = "send"
          /\ idx \in DOMAIN alerts
          /\ cfg.notifiers > 0
          /\ Len(results) = cfg.notifiers
          /\ \E k \in DOMAIN results : results[k]
          /\ alerts_sent' = record_alert(alerts_sent, alerts[idx].event_id,
                                         alerts[idx].type, now)]_vars

\* C6's case: an alert was delivered and its row written in this cycle.
C6_Witness ==
    /\ pc = "wait"
    /\ \E r \in alerts_sent : r.sent_at = now /\ <<r.event_id, r.alert_type>> \in committed

\* C7: when both fetches fail, poll() returns an empty list, does not
\* raise, and leaves the seen set and the alert records as they were; the
\* snapshots change only by the retention sweep when it is due.
C7_BothFetchesFail ==
    (det.valid /\ det.failed = <<TRUE, TRUE>>) =>
        /\ alerts = <<>>
        /\ ~det.raised
        /\ seen_events = det.seen
        /\ alerts_sent = det.sent
        /\ market_snapshots =
              IF cycle % CleanupPeriod = 0
              THEN {r \in det.rows :
                       r.recorded_at >= now - CleanupMaxAgeHours * MinutesPerHour}
              ELSE det.rows

\* C7's case: both fetches failed in a cycle that began with a store that
\* holds seen identifiers and snapshots, while the upstream had records.
C7_Witness ==
    /\ det.valid /\ det.failed = <<TRUE, TRUE>>
    /\ det.seen # {} /\ det.rows # {}
    /\ \E response \in feed.active : response # <<>>

\* C8, as stated: from an empty store, the first cycle over one open market
\* with a first-outcome price emits no alert, marks the market seen and
\* records exactly one snapshot; the next cycle, observing the market with
\* the price moved by at least the threshold under a zero-minute lookback,
\* emits exactly one price_move alert with the old price, the new price
\* and their difference.
C8_TwoCycles ==
    (/\ det.valid
     /\ det.sent = {}
     /\ Len(det.all) = 1
     /\ ~is_closed(det.all[1])
     /\ det.all[1].markets # <<>>
     /\ det.all[1].markets[1].outcomePrices.tag = "ok"
     /\ cfg.price_lookback_minutes = 0) =>
        /\ (det.seen = {} /\ det.rows = {}) =>
              /\ alerts = <<>>
              /\ seen_events = {det.all[1].id}
              /\ Cardinality(market_snapshots) = 1
        /\ (/\ cycle = 2
            /\ det.seen = {det.all[1].id}
            /\ Cardinality(det.rows) = 1
            /\ PriceCrossed(det.all[1])) =>
              /\ Count(alerts, det.all[1].id, "price_move") = 1
              /\ \A i \in DOMAIN alerts : alerts[i].type = "price_move" =>
                    LET old == get_snapshot(det.rows, det.all[1].id, 0, now)
                                   .outcome_prices[1].price.v
                        new == det.all[1].markets[1].outcomePrices.v
                    IN  /\ alerts[i].details.old_price = old
                        /\ alerts[i].details.new_price = new
                        /\ alerts[i].details.change = new - old

\* The entries of the market's outcome list priced above 0.9.
Winners(event) ==
    {i \in DOMAIN event.markets :
        /\ event.markets[i].outcomePrices.tag = "ok"
        /\ event.markets[i].outcomePrices.v > ResolutionPrice}

\* C9: a resolved alert carries the label and the price of the first entry
\* of the market's outcome list priced strictly above 0.9; with no such
\* entry the outcome is "Unknown" and the final price is absent.
C9_ResolvedOutcome ==
    det.valid =>
        \A i \in DOMAIN alerts : alerts[i].type = "resolved" =>
            \E j \in DOMAIN det.all :
                /\ det.all[j].id = alerts[i].event_id
                /\ is_closed(det.all[j])
                /\ IF Winners(det.all[j]) = {}
                   THEN alerts[i].details = [outcome |-> "Unknown", final_price |-> None]
                   ELSE \E w \in Winners(det.all[j]) :
                           /\ \A k \in Winners(det.all[j]) : w <= k
                           /\ alerts[i].details =
                                 [outcome |-> OutcomeLabel(det.all[j].markets[w]),
                                  final_price |->
                                      Some(det.all[j].markets[w].outcomePrices.v)]

\* C9's case: a market seen in an earlier cycle comes back closed with a
\* losing first entry and a winning second one, and the resolved alert
\* names the second.
C9_Witness ==
    /\ det.valid
    /\ \E i \in DOMAIN alerts : \E j \in DOMAIN det.all :
          /\ alerts[i].type = "resolved"
          /\ det.all[j].id = alerts[i].event_id
          /\ is_seen(det.seen, alerts[i].event_id)
          /\ Winners(det.all[j]) = {2}
          /\ alerts[i].details.outcome = "No"

\* C10: cleanup_old_snapshots(maxAge) deletes exactly the snapshots recorded
\* earlier than now - maxAge and returns their number, every other
\* snapshot stays, and no later get_snapshot returns a deleted snapshot.
C10_RetentionSweep ==
    /\ last_call.op = "cleanup_old_snapshots" =>
          LET old == {r \in last_call.before :
                         r.recorded_at < last_call.at - last_call.arg * MinutesPerHour}
          IN  /\ market_snapshots = last_call.before \ old
              /\ last_call.count = Cardinality(old)
    /\ (last_call.op = "get_snapshot" /\ last_call.found) => last_call.id \notin swept
    /\ \A r \in market_snapshots : r.id \notin swept

\* C10's case: a sweep deleted one snapshot and kept another of the same
\* market, recorded exactly at the cutoff.
C10_Witness ==
    /\ last_call.op = "cleanup_old_snapshots"
    /\ last_call.count > 0
    /\ \E r \in market_snapshots : \E q \in last_call.before \ market_snapshots :
          /\ r.event_id = q.event_id
          /\ r.recorded_at = last_call.at - last_call.arg * MinutesPerHour

\* ------------------------------------------------------------------ C11
\* The rows of the table, as it was when the call was made, that belong to
\* the queried identifier and were recorded at or before the cutoff
\* (call time minus lookback).
OldEnough ==
    {r \in last_call.before :
        r.event_id = last_call.event_id /\ r.recorded_at <= last_call.at - last_call.arg}

C12_SeenSet ==
    /\ (last_call.op = "mark_seen" /\ last_call.event_id \in last_call.before.seen)
          => /\ seen_events = last_call.before.seen
             /\ alerts_sent = last_call.before.sent
    /\ last_call.op = "mark_seen" => last_call.event_id \in seen_events
    /\ last_call.op = "is_seen" => (last_call.found <=> last_call.event_id \in marked)
    /\ last_call.op = "is_empty" => (last_call.found <=> marked = {})
    /\ \A id \in Ids : is_seen(seen_events, id) <=> id \in marked
    /\ is_empty(seen_events) <=> marked = {}

\* mark_seen was called again for an identifier already marked while another
\* identifier was marked too.
C12_Witness ==
    /\ last_call.op = "mark_seen"
    /\ last_call.event_id \in last_call.before.seen
    /\ \E id \in last_call.before.seen : id # last_call.event_id

\* ------------------------------------------------------------------ C13
\* C13: the ledger never holds two records of one (identifier, kind) pair;
\* record_alert leaves exactly one record of its pair, stamped with the time
\* of the call, and every record of another pair as it was; has_alert is
\* true exactly for the pairs record_alert was called for (so it stays false
\* for another kind of the same identifier).
C13_OneRecordPerPair ==
    /\ \A r, q \in alerts_sent :
          (r.event_id = q.event_id /\ r.alert_type = q.alert_type) => r = q
    /\ last_call.op = "record_alert" =>
          /\ \A r \in alerts_sent :
                (r.event_id = last_call.event_id /\ r.alert_type = last_call.alert_type)
                   => r.sent_at = last_call.at
          /\ \E r \in alerts_sent :
                r.event_id = last_call.event_id /\ r.alert_type = last_call.alert_type
          /\ \A r \in alerts_sent \cup last_call.before :
                ~(r.event_id = last_call.event_id /\ r.alert_type = last_call.alert_type)
                   => (r \in alerts_sent /\ r \in last_call.before)
    /\ last_call.op = "has_alert" =>
          (last_call.found <=> <<last_call.event_id, last_call.alert_type>> \in committed)

\* record_alert was repeated, at a later time, for a pair that had a record,
\* while the ledger held a record of another kind of the same identifier.
C13_Witness ==
    /\ last_call.op = "record_alert"
    /\ \E r \in last_call.before :
          /\ r.event_id = last_call.event_id
          /\ r.alert_type = last_call.alert_type
          /\ r.sent_at < last_call.at
    /\ \E r \in last_call.before :
          r.event_id = last_call.event_id /\ r.alert_type # last_call.alert_type

\* ------------------------------------------------------------------ C14
\* The alert being dispatched was delivered on at least one channel.
Delivered == \E k \in 1..Len(results) : results[k]

\* C14: each send is the attempt on the next channel of the list; dispatch
\* leaves an alert only after every configured channel was tried, whatever
\* the earlier attempts gave; the alert is then committed (a ledger row
\* stamped now) if a channel succeeded and the ledger is left alone if none
\* did; and dispatch goes from each alert to the next one of the cycle and
\* ends only after the last.
C14_EveryChannelEveryAlert ==
    [][/\ (results' # results /\ results' # <<>>) =>
             /\ pc = "send"
             /\ Len(results') = Len(results) + 1
             /\ Len(results') = ch
             /\ ch <= cfg.notifiers
       /\ (pc = "send" /\ (idx' # idx \/ pc' # "send")) =>
             /\ Len(results) = cfg.notifiers
             /\ Delivered =>
                   [event_id |-> alerts[idx].event_id, alert_type |-> alerts[idx].type,
                    sent_at |-> now] \in alerts_sent'
             /\ ~Delivered => alerts_sent' = alerts_sent
             /\ IF idx < Len(alerts)
                THEN pc' = "send" /\ idx' = idx + 1 /\ alerts' = alerts
                ELSE pc' # "send"
       /\ (pc # "send" /\ pc' = "send") => idx' = 1
      ]_vars

\* The first alert of a cycle failed on both channels and was not
\* committed; the second alert is being dispatched, its first channel failed
\* and its second channel was tried and succeeded.
C14_Witness ==
    /\ pc = "send"
    /\ cfg.notifiers = 2
    /\ idx = 2
    /\ results = <<FALSE, TRUE>>
    /\ <<alerts[1].event_id, alerts[1].type>> \notin committed

\* ------------------------------------------------------------------ C15
\* The triggering condition of an alert kind holds for a record of the
\* cycle that has just ended.
Triggered(kind, event) ==
    /\ kind \in cfg.enabled_alerts
    /\ CASE kind = "closing_soon" ->
               /\ ~is_closed(event)
               /\ event.endDate.tag = "ok"
               /\ event.endDate.v - now > 0
               /\ event.endDate.v - now <= cfg.closing_alert_hours * MinutesPerHour
         [] kind = "resolved" -> is_closed(event)
         [] kind = "price_move" -> PriceCrossed(event)
         [] kind = "volume_spike" -> VolumeCrossed(event)
         [] OTHER -> FALSE

\* A commit of the pair, present when the cycle began, holds the alert back.
Gated(kind, event) ==
    LET last == last_alert_time(det.sent, event.id, kind)
    IN  IF kind \in {"price_move", "volume_spike"}
        THEN last.some /\ now - last.v < CooldownOf(kind)
        ELSE last.some

\* C15, as stated: an alert that failed on every channel and was never
\* committed has no ledger row; and in a later cycle in which its
\* triggering condition holds and no commit gates it, poll() emits it again.
C15_EmittedAgain ==
    /\ \A p \in undelivered \ committed : ~has_alert(alerts_sent, p[1], p[2])
    /\ det.valid =>
          \A j \in DOMAIN det.all : \A kind \in Kinds :
              (/\ <<det.all[j].id, kind>> \in undelivered
               /\ Triggered(kind, det.all[j])
               /\ ~Gated(kind, det.all[j]))
                 => Count(alerts, det.all[j].id, kind) = 1

\* ------------------------------------------------------------------ C16
\* C16, as stated: a cycle that began with an empty seen set returns an
\* empty alert list, whatever the batches held.
C16_FirstCycleSilent ==
    (det.valid /\ det.first_run) => alerts = <<>>

\* ------------------------------------------------------------------ C17
\* The snapshot rows the cycle that has just ended inserted for an id.
NewRows(id) ==
    {r \in market_snapshots : r.event_id = id /\ \A q \in det.rows : q.id # r.id}

\* The record carries no price: no market of it has outcomePrices or a
\* last-trade price.
NoPrices(event) ==
    \A i \in DOMAIN event.markets :
        /\ event.markets[i].outcomePrices.tag = "absent"
        /\ event.markets[i].lastTradePrice.tag = "absent"

\* The record carries neither volume nor volume24hr.
NoVolume(event) == event.volume.tag = "absent" /\ event.volume24hr.tag = "absent"

\* One row stamped now for every open record of the merged set, none for a
\* closed one, and NULL prices for a record without prices.
SnapshotPerOpenRecord ==
    \A j \in DOMAIN det.all :
        LET event == det.all[j]
        IN  /\ Cardinality(NewRows(event.id)) = IF is_closed(event) THEN 0 ELSE 1
            /\ \A r \in NewRows(event.id) :
                  /\ r.recorded_at = now
                  /\ NoPrices(event) => r.outcome_prices.null

\* C17, as stated: in each completed cycle every open record of the merged
\* set gets exactly one snapshot and no closed record gets one, and absent
\* prices and an absent volume are both stored as NULL.
C17_AbsentStoredAsNull ==
    (det.valid /\ ~det.raised) =>
        /\ SnapshotPerOpenRecord
        /\ \A j \in DOMAIN det.all : \A r \in NewRows(det.all[j].id) :
              NoVolume(det.all[j]) => ~r.volume_24hr.some

\* C17, amended: in each completed cycle every open record of the merged
\* set gets exactly one snapshot and no closed record gets one, whatever is
\* enabled and whatever fired; absent prices are stored as NULL, an absent
\* volume is stored as 0 and only a volume that does not parse as NULL.
C17_SnapshotPerOpenRecord ==
    (det.valid /\ ~det.raised) =>
        /\ SnapshotPerOpenRecord
        /\ \A j \in DOMAIN det.all : \A r \in NewRows(det.all[j].id) :
              /\ NoVolume(det.all[j]) => r.volume_24hr = Some(0)
              /\ (det.all[j].volume.tag = "bad") => r.volume_24hr = None

\* A completed cycle, with some detectors disabled, that held an open
\* record without markets and without volume: its snapshot has NULL prices
\* and volume 0.
C17_Witness ==
    /\ det.valid /\ ~det.raised
    /\ cfg.enabled_alerts # Kinds
    /\ \E j \in DOMAIN det.all :
          /\ ~is_closed(det.all[j])
          /\ NoPrices(det.all[j]) /\ NoVolume(det.all[j])
          /\ \E r \in NewRows(det.all[j].id) :
                r.outcome_prices.null /\ r.volume_24hr = Some(0)

\* ------------------------------------------------------------------ C18
\* The ids that occur in both batches of the cycle that has just ended.
InBothBatches == IdsOf(det.active) \cap IdsOf(det.closed)

\* C18: the merged set holds exactly one record for every id that occurs in
\* a batch and no other; the record of an id of the active batch is a record
\* of the active batch, also when the closed batch holds the id too, and such
\* a market, open in the active batch, is handled as open: no resolved alert
\* and, when the cycle completes, a snapshot.
C18_MergedSet ==
    det.valid =>
        /\ IdsOf(det.all) = IdsOf(det.active) \cup IdsOf(det.closed)
        /\ \A i, j \in DOMAIN det.all : det.all[i].id = det.all[j].id => i = j
        /\ \A j \in DOMAIN det.all :
              IF det.all[j].id \in IdsOf(det.active)
              THEN \E i \in DOMAIN det.active : det.active[i] = det.all[j]
              ELSE \E i \in DOMAIN det.closed : det.closed[i] = det.all[j]
        /\ \A j \in DOMAIN det.all :
              (det.all[j].id \in InBothBatches /\ ~is_closed(det.all[j])) =>
                  /\ Count(alerts, det.all[j].id, "resolved") = 0
                  /\ ~det.raised => Cardinality(NewRows(det.all[j].id)) = 1

\* A completed cycle in which an id came open in the active batch and closed
\* in the closed batch, after a cycle that had made the id seen.
C18_Witness ==
    /\ det.valid /\ ~det.raised
    /\ "resolved" \in cfg.enabled_alerts
    /\ \E j \in DOMAIN det.all :
          /\ det.all[j].id \in InBothBatches
          /\ det.all[j].id \in det.seen
          /\ ~is_closed(det.all[j])
          /\ \E i \in DOMAIN det.closed :
                det.closed[i].id = det.all[j].id /\ is_closed(det.closed[i])

\* ------------------------------------------------------------------ C19
\* C19: after a cycle poll() completed, every id of its merged set is in
\* the seen set, whatever is enabled, backfill or not, suppressed or not.
C19_AllSeenAfterCycle ==
    (det.valid /\ ~det.raised) => IdsOf(det.all) \subseteq seen_events

\* A completed cycle past the backfill, with new_market disabled, that
\* observed an id for the first time and emitted nothing for it.
C19_Witness ==
    /\ det.valid /\ ~det.raised /\ ~det.first_run
    /\ "new_market" \notin cfg.enabled_alerts
    /\ \E j \in DOMAIN det.all :
          /\ det.all[j].id \notin det.seen
          /\ det.all[j].id \in seen_events
          /\ \A i \in DOMAIN alerts : alerts[i].event_id # det.all[j].id

\* ------------------------------------------------------------------ C20
\* The cycle that has just ended, run again from the same store and the
\* same batches by a monitor that differs only in that kind is disabled.
\* Its ledger holds no row of that kind: it never emitted one.
TwinCycle(kind) ==
    PollReturn(det.all,
               PollLoop([seen |-> det.seen, rows |-> det.rows, seq |-> det.seq,
                         alerts |-> <<>>, raised |-> FALSE],
                        det.all, 1, det.first_run,
                        [cfg EXCEPT !.enabled_alerts = @ \ {kind}],
                        {r \in det.sent : r.alert_type # kind}, now),
               cycle, now)

RECURSIVE OtherKinds(_, _)
\* The alerts of a list that are not of the given kind, in order.
OtherKinds(as, kind) ==
    IF as = <<>> THEN <<>>
    ELSE IF Head(as).type = kind THEN OtherKinds(Tail(as), kind)
    ELSE <<Head(as)>> \o OtherKinds(Tail(as), kind)

\* C20, as stated: a run with a kind enabled and the run that differs only
\* in having it disabled, fed the same batches and delivery outcomes, have
\* the same seen set and the same snapshots after every cycle and emit the
\* same alerts of every other kind in every cycle.  The two runs agree up
\* to the cycle that has just ended, so the twin starts it from this run's
\* store.
C20_SkippableDetectors ==
    det.valid =>
        \A kind \in cfg.enabled_alerts :
            \E twin \in {TwinCycle(kind)} :
                /\ seen_events = twin.seen
                /\ market_snapshots = twin.rows
                /\ OtherKinds(alerts, kind) = twin.alerts

\* ------------------------------------------------------------------ C21
\* The minutes left until the record's end timestamp.
Remaining(event) == event.endDate.v - now

\* The condition C21 gives for a closing_soon alert of a record.
ClosingSoonDue(event) ==
    /\ "closing_soon" \in cfg.enabled_alerts
    /\ ~is_closed(event)
    /\ event.endDate.tag = "ok"
    /\ 0 < Remaining(event)
    /\ Remaining(event) <= cfg.closing_alert_hours * MinutesPerHour
    /\ ~has_alert(det.sent, event.id, "closing_soon")

\* C21, as stated: the cycle emits a closing_soon alert for a record
\* exactly when closing_soon is enabled, the record is open, its end
\* timestamp parses, the remaining time r satisfies
\* 0 < r <= closing_alert_hours and the ledger holds no closing_soon row for
\* the id; so r = closing_alert_hours emits and r = 0 does not.
C21_ClosingSoonIff ==
    det.valid =>
        \A j \in DOMAIN det.all :
            Count(alerts, det.all[j].id, "closing_soon")
                = IF ClosingSoonDue(det.all[j]) THEN 1 ELSE 0

\* ------------------------------------------------------------------ C22
\* Current prices are extractable, a baseline snapshot at or before
\* now - lookback exists with prices, and the first-outcome prices differ
\* by at least the threshold.
PriceMoved(event) ==
    LET x == extract_prices(event)
        snapshot == get_snapshot(det.rows, event.id, cfg.price_lookback_minutes, now)
    IN  /\ ~x.raised
        /\ x.prices # <<>>
        /\ x.prices[1].price.some
        /\ snapshot.found
        /\ snapshot.outcome_prices # <<>>
        /\ snapshot.outcome_prices[1].price.some
        /\ Abs(x.prices[1].price.v - snapshot.outcome_prices[1].price.v)
               >= cfg.price_threshold

\* The minutes since the last commit of the pair, when there is one.
SinceLastCommit(id, kind) ==
    LET last == last_alert_time(det.sent, id, kind)
    IN  IF last.some THEN Some(now - last.v) ELSE None

\* C22, as stated: the cycle emits a price_move alert for an open record
\* exactly when price_move is enabled, the price moved by the threshold
\* against a baseline snapshot, and either no price_move commit exists for
\* the id or the time since the last one exceeds the cooldown.
C22_PriceMoveIff ==
    det.valid =>
        \A j \in DOMAIN det.all :
            ~is_closed(det.all[j]) =>
                Count(alerts, det.all[j].id, "price_move")
                    = IF /\ "price_move" \in cfg.enabled_alerts
                         /\ PriceMoved(det.all[j])
                         /\ \E e \in {SinceLastCommit(det.all[j].id, "price_move")} :
                               ~e.some \/ e.v > cfg.price_cooldown_minutes
                      THEN 1 ELSE 0

\* ------------------------------------------------------------------ C23
\* The current volume is positive, a baseline snapshot at or before
\* now - lookback exists with a strictly positive volume, and the ratio of
\* the two reaches the multiplier.
VolumeSpiked(event) ==
    LET volume == extract_volume(event)
        snapshot == get_snapshot(det.rows, event.id, cfg.volume_lookback_minutes, now)
    IN  /\ volume.some /\ volume.v > 0
        /\ snapshot.found
        /\ snapshot.volume_24hr.some /\ snapshot.volume_24hr.v > 0
        /\ volume.v >= cfg.volume_spike_multiplier * snapshot.volume_24hr.v

\* C23, as stated: the cycle emits a volume_spike alert for an open record
\* exactly when volume_spike is enabled, the volume reached the multiple of
\* a strictly positive baseline volume, and the cooldown since the last
\* volume_spike commit, if there is one, has elapsed.
C23_VolumeSpikeIff ==
    det.valid =>
        \A j \in DOMAIN det.all :
            ~is_closed(det.all[j]) =>
                Count(alerts, det.all[j].id, "volume_spike")
                    = IF /\ "volume_spike" \in cfg.enabled_alerts
                         /\ VolumeSpiked(det.all[j])
                         /\ \E e \in {SinceLastCommit(det.all[j].id, "volume_spike")} :
                               ~e.some \/ e.v >= cfg.volume_cooldown_minutes
                      THEN 1 ELSE 0

\* ------------------------------------------------------------------ C24
\* C24, as stated: poll() calls the retention sweep in exactly the cycles
\* whose number, counted by the Monitor from 1, is a multiple of 60; it
\* calls it after every record of the cycle was processed, and the sweep
\* leaves no snapshot older than 24 hours.
C24_SweepEverySixtieth ==
    det.valid =>
        /\ det.cleanup <=> cycle % CleanupPeriod = 0
        /\ det.cleanup =>
              /\ IdsOf(det.all) \subseteq seen_events
              /\ SnapshotPerOpenRecord
              /\ \A r \in market_snapshots :
                    r.recorded_at >= now - CleanupMaxAgeHours * MinutesPerHour

\* ------------------------------------------------------------------ C25
\* The positions of main() inside a cycle: between entering poll() and the
\* end of dispatch.
InFlight == {"fetch_active", "fetch_closed", "send"}

\* How far main() is from its end, by position: a step never goes back to
\* a position further away once shutdown is set.
Distance(p) ==
    CASE p = "done" -> 0
      [] p = "closing" -> 1
      [] p = "loop" -> 2
      [] p = "wait" -> 3
      [] p = "send" -> 4
      [] p = "fetch_closed" -> 5
      [] p = "fetch_active" -> 6

\* The sends and commits the dispatch of the cycle still has to make.
DispatchLeft(as, i, c, n) == (Len(as) - i) * (n + 1) + (n + 1 - c)

\* C25: once shutdown is set it stays set, no poll cycle starts and no wait
\* lets time pass; a cycle in flight goes on through its fetches, its
\* detection and the dispatch of every alert on every channel; every step
\* main() takes brings it nearer to its end and, past the fetches, a step
\* can always be taken, so the loop ends; the store and the channels stay
\* open until the loop has ended and are all closed when main() is done.
C25_Shutdown ==
    /\ [][shutdown => (shutdown' /\ cycle' = cycle /\ now' = now)]_vars
    /\ [][(shutdown /\ pc = "fetch_active") => pc' \in {"fetch_active", "fetch_closed"}]_vars
    /\ [][(shutdown /\ pc = "fetch_closed") => pc' \in {"fetch_closed", "send", "wait"}]_vars
    /\ [][(shutdown /\ pc = "fetch_closed" /\ pc' = "wait") => alerts' = <<>>]_vars
    /\ [][(shutdown /\ pc = "send" /\ pc' # "send") =>
             /\ pc' = "wait"
             /\ idx = Len(alerts)
             /\ Len(results) = cfg.notifiers]_vars
    /\ [][shutdown =>
             \/ Distance(pc') < Distance(pc)
             \/ /\ pc = "send" /\ pc' = "send"
                /\ DispatchLeft(alerts', idx', ch', cfg.notifiers)
                      < DispatchLeft(alerts, idx, ch, cfg.notifiers)]_vars
    /\ [](pc = "send" => DispatchLeft(alerts, idx, ch, cfg.notifiers) >= 0)
    /\ []((shutdown /\ pc \in {"send", "wait", "loop", "closing"}) =>
             ENABLED (Send \/ Commit \/ WaitInterrupted \/ LoopExit \/ Shutdown))
    /\ [](pc \in InFlight \cup {"loop", "wait"} =>
             open = [notifiers |-> cfg.notifiers, store |-> TRUE])
    /\ [](pc = "done" => (shutdown /\ open = [notifiers |-> 0, store |-> FALSE]))

\* The signal arrived while a cycle was in flight, and the last alert of
\* that cycle, not the first, has been tried on every channel.
C25_Witness ==
    /\ shutdown
    /\ pc = "send"
    /\ idx >= 2
    /\ idx = Len(alerts)
    /\ cfg.notifiers > 0
    /\ Len(results) = cfg.notifiers

\* ------------------------------------------------------------------ C26
\* C26, as stated: whatever fields of the records are missing or do not
\* parse, poll() does not raise, and every record of the cycle is processed:
\* each id is marked seen and each open record gets its snapshot.
C26_FieldErrorsIsolated ==
    det.valid =>
        /\ ~det.raised
        /\ IdsOf(det.all) \subseteq seen_events
        /\ SnapshotPerOpenRecord

\* ------------------------------------------------- failures of a cycle

\* C27: an exception raised by the Store during a cycle ends the process:
\* once main() has seen one, no further poll cycle starts.
C27_StoreFailureFatal ==
    [][error.kind = "store" => cycle' = cycle]_vars

\* C28: an exception raised by poll() or in the dispatch of its alerts does
\* not end the loop.  The step that catches it abandons the rest of the
\* cycle and goes to the wait; unless shutdown is set the wait lasts the
\* poll interval and is followed by the start of the next cycle; main()
\* ends only on shutdown.
C28_LoopSurvives ==
    /\ [][error' # error /\ error'.kind # "none" =>
            /\ pc' = "wait"
            /\ alerts' = <<>>
            /\ idx' = 0
            /\ ch' = 0]_vars
    /\ [][pc = "wait" /\ ~shutdown /\ pc' # "wait" =>
            /\ pc' = "loop"
            /\ now' = now + cfg.poll_interval_sec \div 60
            /\ cycle' = cycle]_vars
    /\ [][pc = "loop" /\ ~shutdown /\ pc' # "loop" => cycle' = cycle + 1]_vars
    /\ [](pc = "wait" /\ ~shutdown /\ now < MaxNow => ENABLED WaitTimeout)
    /\ [](pc = "loop" /\ ~shutdown => ENABLED PollStart)
    /\ [](pc = "done" => shutdown)

\* After a cycle that ended in the dispatch, by an exception of
\* record_alert, main() has waited the interval and is at the loop head.
C28_Witness ==
    /\ error.at = "dispatch"
    /\ error.cycle = cycle
    /\ pc = "loop"
    /\ now > 0
    /\ ~shutdown

\* ------------------------------------------------------------------ C29
\* The (identifier, kind) pairs that have a row in alerts_sent.
Recorded(sentRows) == {<<r.event_id, r.alert_type>> : r \in sentRows}

\* The rows a step deletes from market_snapshots.
Deleted == market_snapshots \ market_snapshots'

\* C29: no step removes an id from seen_events or an (identifier, kind)
\* pair from alerts_sent; rows leave market_snapshots only in a cycle that
\* runs the retention sweep, and only rows older than the retention; a
\* cycle that finds seen_events non-empty does not run in backfill mode.
C29_RecordsOnlyGrow ==
    /\ [][/\ seen_events \subseteq seen_events'
          /\ Recorded(alerts_sent) \subseteq Recorded(alerts_sent')]_vars
    /\ [][Deleted # {} =>
            /\ det'.valid
            /\ det'.cleanup
            /\ \A r \in Deleted :
                   r.recorded_at < now - CleanupMaxAgeHours * MinutesPerHour]_vars
    /\ [][cycle' # cycle /\ seen_events # {} => ~is_first_run']_vars
    /\ [](det.valid /\ det.seen # {} => ~det.first_run)

\* After a sweep that deleted a row, with a record in the ledger, a cycle
\* has run that was not in backfill mode.
C29_Witness ==
    /\ swept # {}
    /\ alerts_sent # {}
    /\ det.valid
    /\ det.seen # {}
    /\ ~det.first_run

\* ------------------------------------------------------------------ C30
\* The new_market alerts that did not reach a channel: every send failed,
\* or main() never dispatched them.
NotDelivered == {p \in undelivered \cup dropped : p[2] = "new_market"}

\* C30: the id of a new_market alert is in the seen set before the first
\* send and stays there; a new_market alert that failed on every channel,
\* or that was lost with the cycle, has been returned by poll() at most
\* once, no later poll() returns one for its id, and none is lost twice.
C30_LostNewMarketStaysLost ==
    /\ [](\A i \in DOMAIN alerts :
              alerts[i].type = "new_market" => is_seen(seen_events, alerts[i].event_id))
    /\ [](\A p \in NotDelivered :
              /\ is_seen(seen_events, p[1])
              /\ emitted[p] <= 1
              /\ p \notin committed)
    /\ [](det.valid =>
              \A p \in NotDelivered : Count(alerts, p[1], "new_market") = 0)
    /\ [][\A p \in dropped' \ dropped :
              p[2] = "new_market" =>
                  /\ p \notin undelivered
                  /\ p \in PairsFrom(alerts, 1) \/ ~is_seen(seen_events, p[1])]_vars

\* A completed cycle observes again an id whose new_market alert failed on
\* every channel in an earlier cycle, and returns none for it.
C30_Witness ==
    /\ det.valid /\ ~det.raised
    /\ \E id \in IdsOf(det.all) :
          /\ <<id, "new_market">> \in undelivered
          /\ <<id, "new_market">> \notin committed
          /\ Count(alerts, id, "new_market") = 0

\* ------------------------------------------------------------------ C31
Trends == {"price_move", "volume_spike"}

LookbackOf(kind) ==
    IF kind = "price_move" THEN cfg.price_lookback_minutes
    ELSE cfg.volume_lookback_minutes

\* The value of the baseline an alert of a trend kind reports.
BaselineIn(alert) ==
    IF alert.type = "price_move" THEN Some(alert.details.old_price)
    ELSE Some(alert.details.old_volume)

\* The same value in a snapshot get_snapshot returned.
BaselineOf(kind, snapshot) ==
    IF kind = "price_move"
    THEN IF snapshot.outcome_prices = <<>> THEN None
         ELSE snapshot.outcome_prices[1].price
    ELSE snapshot.volume_24hr

\* C31: the baseline of every price_move and volume_spike alert is the row
\* get_snapshot finds in the table as it was when the cycle began, a row
\* written before this cycle's clock; a record whose id has no row there,
\* and so every record observed for the first time, gets no alert of these
\* kinds; and a completed cycle does not miss a move against that row.
C31_BaselineFromEarlierCycle ==
    det.valid =>
        /\ \A i \in DOMAIN alerts :
              alerts[i].type \in Trends =>
                  \E b \in {get_snapshot(det.rows, alerts[i].event_id,
                                         LookbackOf(alerts[i].type), now)} :
                      /\ b.found
                      /\ b.id <= det.seq
                      /\ b.recorded_at < now
                      /\ BaselineOf(alerts[i].type, b) = BaselineIn(alerts[i])
        /\ \A j \in DOMAIN det.all : \A kind \in Trends :
              (\/ ~is_seen(det.seen, det.all[j].id)
               \/ \A r \in det.rows : r.event_id # det.all[j].id)
                 => Count(alerts, det.all[j].id, kind) = 0
        /\ \A id \in Ids :
              ~is_seen(det.seen, id) => \A r \in det.rows : r.event_id # id
        /\ ~det.raised =>
              \A j \in DOMAIN det.all :
                  (/\ ~is_closed(det.all[j])
                   /\ "price_move" \in cfg.enabled_alerts
                   /\ PriceMoved(det.all[j])
                   /\ ~has_alert(det.sent, det.all[j].id, "price_move"))
                     => Count(alerts, det.all[j].id, "price_move") = 1

\* A completed cycle returns a price_move alert for a record whose
\* snapshot of this cycle is in the table, with a baseline saved before.
C31_Witness ==
    /\ det.valid /\ ~det.raised
    /\ cfg.price_lookback_minutes = 0
    /\ \E i \in DOMAIN alerts :
          /\ alerts[i].type = "price_move"
          /\ \E r \in market_snapshots \ det.rows :
                r.event_id = alerts[i].event_id /\ r.recorded_at = now
          /\ \E r \in det.rows :
                r.event_id = alerts[i].event_id /\ r.recorded_at < now

====
